---- MODULE Spec2Model ----
(***************************************************************************)
(* Bank-statement line parsers of EstudioDM-01-OCRExtractPDF:               *)
(*   parse_santander_pdf and parse_hsbc_pdf  (App_STDR_OCR_PDF_Extract.py)  *)
(*   the module-level HSBC loop  (EstudioDM_HSBC_OCR_PDF_Extract_..._v06.py)*)
(*                                                                         *)
(* Text is modelled as TLA+ strings, one character per position.  Python   *)
(* floats that hold money are modelled by their value in cents (all money  *)
(* tokens of the modelled inputs have at most two decimals).  A Python     *)
(* value is a tagged record: None, Str(s) or Float(cents).                 *)
(*                                                                         *)
(* Non-ASCII characters cannot occur in a TLA+ string; each one the source *)
(* mentions is written as an ASCII stand-in that occurs nowhere else:      *)
(*   U+2013 EN DASH "~"   U+2014 EM DASH "^"   U+2212 MINUS SIGN "="        *)
(*   U+201A "!"  U+00C4 "@"  U+00EC "#"  U+00EE "%"  U+00E0 "&"  U+00ED "*" *)
(* (the last six are the characters that the source file really holds in   *)
(* its dash classes and dash replacements: it stores the three dashes      *)
(* double-encoded, as the three-character strings "!@#", "!@%", "!&*").    *)
(***************************************************************************)
EXTENDS Integers, Sequences, FiniteSets, TLC

\* ------------------------------------------------------------------------
\* Python values
\* ------------------------------------------------------------------------
None == [none |-> TRUE]
Str(s) == [str |-> s]
Float(c) == [float |-> c]
IsNone(v) == "none" \in DOMAIN v
IsStr(v) == "str" \in DOMAIN v
IsFloat(v) == "float" \in DOMAIN v

\* ------------------------------------------------------------------------
\* Characters and str methods
\* ------------------------------------------------------------------------
Digit == {"0", "1", "2", "3", "4", "5", "6", "7", "8", "9"}
UpperAZ == {"A", "B", "C", "D", "E", "F", "G", "H", "I", "J", "K", "L", "M",
            "N", "O", "P", "Q", "R", "S", "T", "U", "V", "W", "X", "Y", "Z"}
LowerAZ == {"a", "b", "c", "d", "e", "f", "g", "h", "i", "j", "k", "l", "m",
            "n", "o", "p", "q", "r", "s", "t", "u", "v", "w", "x", "y", "z"}
Space == {" ", "\t"}

ChAt(s, i) == SubSeq(s, i, i)

UpperOf ==
  [c \in LowerAZ |->
     CASE c = "a" -> "A" [] c = "b" -> "B" [] c = "c" -> "C" [] c = "d" -> "D"
       [] c = "e" -> "E" [] c = "f" -> "F" [] c = "g" -> "G" [] c = "h" -> "H"
       [] c = "i" -> "I" [] c = "j" -> "J" [] c = "k" -> "K" [] c = "l" -> "L"
       [] c = "m" -> "M" [] c = "n" -> "N" [] c = "o" -> "O" [] c = "p" -> "P"
       [] c = "q" -> "Q" [] c = "r" -> "R" [] c = "s" -> "S" [] c = "t" -> "T"
       [] c = "u" -> "U" [] c = "v" -> "V" [] c = "w" -> "W" [] c = "x" -> "X"
       [] c = "y" -> "Y" [] c = "z" -> "Z"]

LowerChar(c) ==
  IF c \in UpperAZ THEN CHOOSE l \in LowerAZ : UpperOf[l] = c ELSE c

RECURSIVE lower(_)
lower(s) ==
  IF s = "" THEN "" ELSE LowerChar(ChAt(s, 1)) \o lower(SubSeq(s, 2, Len(s)))

\* str.replace(old, new), leftmost non-overlapping occurrences, old # ""
RECURSIVE replace(_, _, _)
replace(s, old, new) ==
  IF Len(s) < Len(old) THEN s
  ELSE IF SubSeq(s, 1, Len(old)) = old
       THEN new \o replace(SubSeq(s, Len(old) + 1, Len(s)), old, new)
       ELSE ChAt(s, 1) \o replace(SubSeq(s, 2, Len(s)), old, new)

RECURSIVE lstrip(_)
lstrip(s) ==
  IF s # "" /\ ChAt(s, 1) \in Space THEN lstrip(SubSeq(s, 2, Len(s))) ELSE s

RECURSIVE rstrip(_)
rstrip(s) ==
  IF s # "" /\ ChAt(s, Len(s)) \in Space
  THEN rstrip(SubSeq(s, 1, Len(s) - 1)) ELSE s

strip(s) == lstrip(rstrip(s))

\* ------------------------------------------------------------------------
\* float(str): the result is Float(cents), or ValueError when Python raises.
\* Covers the texts a normalizer can hand to float(): sign, digits, one
\* point, and any other character (which float() rejects).  Texts with
\* more than two decimals are outside the modelled inputs.
\* ------------------------------------------------------------------------
ValueError == [error |-> "ValueError"]
TypeError == [error |-> "TypeError"]
IsError(v) == "error" \in DOMAIN v

DigitVal ==
  [c \in Digit |->
     CASE c = "0" -> 0 [] c = "1" -> 1 [] c = "2" -> 2 [] c = "3" -> 3
       [] c = "4" -> 4 [] c = "5" -> 5 [] c = "6" -> 6 [] c = "7" -> 7
       [] c = "8" -> 8 [] c = "9" -> 9]

RECURSIVE AllDigits(_)
AllDigits(s) ==
  s = "" \/ (ChAt(s, 1) \in Digit /\ AllDigits(SubSeq(s, 2, Len(s))))

RECURSIVE DigitsValue(_)
DigitsValue(s) ==
  IF s = "" THEN 0
  ELSE 10 * DigitsValue(SubSeq(s, 1, Len(s) - 1)) + DigitVal[ChAt(s, Len(s))]

\* position of the first "." of s, or 0
RECURSIVE PointAt(_, _)
PointAt(s, i) ==
  IF i > Len(s) THEN 0 ELSE IF ChAt(s, i) = "." THEN i ELSE PointAt(s, i + 1)

\* an unsigned decimal "ddd", "ddd.", ".dd" or "ddd.dd", in cents
Unsigned(s) ==
  LET k == PointAt(s, 1)
      ip == IF k = 0 THEN s ELSE SubSeq(s, 1, k - 1)
      fp == IF k = 0 THEN "" ELSE SubSeq(s, k + 1, Len(s))
  IN IF /\ AllDigits(ip) /\ AllDigits(fp) /\ ip \o fp # "" /\ Len(fp) <= 2
     THEN Float(100 * DigitsValue(ip)
                + (IF Len(fp) = 1 THEN 10 ELSE 1) * DigitsValue(fp))
     ELSE ValueError

float(text) ==
  LET s == strip(text)
      signed == s # "" /\ ChAt(s, 1) \in {"-", "+"}
      u == Unsigned(IF signed THEN SubSeq(s, 2, Len(s)) ELSE s)
  IN IF IsError(u) THEN ValueError
     ELSE IF signed /\ ChAt(s, 1) = "-" THEN Float(0 - u.float) ELSE u

\* ------------------------------------------------------------------------
\* Shared helpers
\* ------------------------------------------------------------------------
\* the dash replacements as the source file holds them: each "old" text is
\* the three-character double-encoded form, not the dash itself
NormalizeDashes(raw) ==
  replace(replace(replace(raw, "!@#", "-"), "!@%", "-"), "!&*", "-")

_to_float_money_arg(raw) ==
  float(strip(replace(replace(replace(replace(NormalizeDashes(raw),
                                              "$", ""), ".", ""), ",", "."),
                      " ", "")))

_to_float_money_us(raw) ==
  float(strip(replace(NormalizeDashes(raw), ",", "")))

\* ------------------------------------------------------------------------
\* Regular expressions (Python re, backtracking, leftmost and by priority).
\* A pattern is a tree; Run gives every way the pattern matches s from a
\* state [p: next position, g: groups captured so far], in the order in
\* which Python's matcher tries them, so that the head of the list is the
\* match Python reports.
\* ------------------------------------------------------------------------
Chr(set) == [t |-> "chr", set |-> set]
Dot == [t |-> "any"]
Cat(xs) == [t |-> "cat", xs |-> xs]
Alt(xs) == [t |-> "alt", xs |-> xs]
Rep(x, min, max, greedy) ==
  [t |-> "rep", x |-> x, min |-> min, max |-> max, greedy |-> greedy]
Grp(name, x) == [t |-> "grp", name |-> name, x |-> x]
Bol == [t |-> "bol"]
Eol == [t |-> "eol"]

Inf == 0 - 1
Opt(x) == Rep(x, 0, 1, TRUE)
Star(x) == Rep(x, 0, Inf, TRUE)
Plus(x) == Rep(x, 1, Inf, TRUE)
LazyStar(x) == Rep(x, 0, Inf, FALSE)
Times(x, n) == Rep(x, n, n, TRUE)

RECURSIVE LitFrom(_, _)
LitFrom(s, i) ==
  IF i > Len(s) THEN <<>> ELSE <<Chr({ChAt(s, i)})>> \o LitFrom(s, i + 1)
Lit(s) == Cat(LitFrom(s, 1))

\* a literal under re.IGNORECASE
RECURSIVE LitIFrom(_, _)
LitIFrom(s, i) ==
  IF i > Len(s) THEN <<>>
  ELSE <<Chr({c \in UpperAZ \cup LowerAZ \cup {ChAt(s, i)} :
               LowerChar(c) = LowerChar(ChAt(s, i))})>> \o LitIFrom(s, i + 1)
LitI(s) == Cat(LitIFrom(s, 1))

RECURSIVE Run(_, _, _)
RECURSIVE RunCat(_, _, _, _)
RECURSIVE RunAlt(_, _, _, _)
RECURSIVE RunRep(_, _, _, _)
RECURSIVE RunEach(_, _, _, _, _)
RECURSIVE RepEach(_, _, _, _, _, _)

\* x from every state sts[lo..hi], in order
RunEach(x, s, sts, lo, hi) ==
  IF lo > hi THEN <<>>
  ELSE IF lo = hi THEN Run(x, s, sts[lo])
  ELSE LET mid == (lo + hi) \div 2
       IN RunEach(x, s, sts, lo, mid) \o RunEach(x, s, sts, mid + 1, hi)

RunCat(xs, i, s, sts) ==
  IF i > Len(xs) \/ sts = <<>> THEN sts
  ELSE RunCat(xs, i + 1, s, RunEach(xs[i], s, sts, 1, Len(sts)))

RunAlt(xs, i, s, st) ==
  IF i > Len(xs) THEN <<>>
  ELSE Run(xs[i], s, st) \o RunAlt(xs, i + 1, s, st)

\* the n+1-th and further repetitions from every state sts[lo..hi], in order
RepEach(r, s, sts, n, lo, hi) ==
  IF lo > hi THEN <<>>
  ELSE IF lo = hi THEN RunRep(r, s, sts[lo], n)
  ELSE LET mid == (lo + hi) \div 2
       IN RepEach(r, s, sts, n, lo, mid) \o RepEach(r, s, sts, n, mid + 1, hi)

\* a repetition after n rounds: one more round (only if it consumes text),
\* or stop; the greedy form tries one more round first
RunRep(r, s, st, n) ==
  LET once == IF r.max = Inf \/ n < r.max
              THEN SelectSeq(Run(r.x, s, st), LAMBDA q : q.p > st.p)
              ELSE <<>>
      more == RepEach(r, s, once, n + 1, 1, Len(once))
      stop == IF n >= r.min THEN <<st>> ELSE <<>>
  IN IF r.greedy THEN more \o stop ELSE stop \o more

\* the same for the repetition of one character class, computed from the
\* length of the run of matching characters
RunRepChar(r, s, st) ==
  LET ok(i) == i <= Len(s) /\ (r.x.t = "any" \/ ChAt(s, i) \in r.x.set)
      room == Len(s) - st.p + 1
      lim == IF r.max = Inf \/ r.max > room THEN room ELSE r.max
      run == CHOOSE n \in 0..lim :
               /\ \A i \in st.p..(st.p + n - 1) : ok(i)
               /\ n = lim \/ ~ok(st.p + n)
      count == run - r.min + 1
  IN IF run < r.min THEN <<>>
     ELSE [k \in 1..count |->
             [st EXCEPT !.p = IF r.greedy THEN st.p + run - (k - 1)
                                          ELSE st.p + r.min + (k - 1)]]

Run(x, s, st) ==
  CASE x.t = "chr" ->
         IF st.p <= Len(s) /\ ChAt(s, st.p) \in x.set
         THEN <<[st EXCEPT !.p = st.p + 1]>> ELSE <<>>
    [] x.t = "any" ->
         IF st.p <= Len(s) THEN <<[st EXCEPT !.p = st.p + 1]>> ELSE <<>>
    [] x.t = "bol" -> IF st.p = 1 THEN <<st>> ELSE <<>>
    [] x.t = "eol" -> IF st.p = Len(s) + 1 THEN <<st>> ELSE <<>>
    [] x.t = "cat" -> RunCat(x.xs, 1, s, <<st>>)
    [] x.t = "alt" -> RunAlt(x.xs, 1, s, st)
    [] x.t = "rep" ->
         IF x.x.t \in {"chr", "any"} THEN RunRepChar(x, s, st)
         ELSE RunRep(x, s, st, 0)
    [] x.t = "grp" ->
         LET rs == Run(x.x, s, st)
         IN [i \in 1..Len(rs) |->
               [rs[i] EXCEPT !.g = (x.name :> <<st.p, rs[i].p>>) @@ rs[i].g]]

NoGroups == [n \in {} |-> <<>>]
NoMatch == [matched |-> FALSE]

\* the match object: text of every group that took part, None for the others
MatchObject(s, st) == [matched |-> TRUE, s |-> s, g |-> st.g]

group(m, name) ==
  IF name \in DOMAIN m.g
  THEN Str(SubSeq(m.s, m.g[name][1], m.g[name][2] - 1))
  ELSE None

\* pattern.match(s): anchored at the start of s
match(x, s) ==
  LET rs == Run(x, s, [p |-> 1, g |-> NoGroups])
  IN IF rs = <<>> THEN NoMatch ELSE MatchObject(s, rs[1])

\* pattern.search(s): the leftmost start that matches
search(x, s) ==
  LET from(i) == Run(x, s, [p |-> i, g |-> NoGroups])
      starts == {i \in 1..(Len(s) + 1) : from(i) # <<>>}
  IN IF starts = {} THEN NoMatch
     ELSE MatchObject(s, from(CHOOSE i \in starts : \A j \in starts : i <= j)[1])

\* ------------------------------------------------------------------------
\* Santander patterns
\* ------------------------------------------------------------------------
Ws == Chr(Space)
D == Chr(Digit)

\* the class written [-...] in the source: the hyphen and the six characters
\* of the double-encoded dashes
DashClass == {"-", "!", "@", "#", "%", "&", "*"}

\* [-...]?\s*\$\s*[\d\.\,]+
MoneyArg ==
  Cat(<<Opt(Chr(DashClass)), Star(Ws), Chr({"$"}), Star(Ws),
        Plus(Chr(Digit \cup {".", ","}))>>)

saldo_inicial_stdr_re ==
  Cat(<<Lit("Saldo"), Plus(Ws), Lit("Inicial"), Plus(Ws), Grp("1", MoneyArg)>>)

\* the slip of writing the credit alternative first
linea_movimiento_credito_primero ==
  Cat(<<Bol,
        Opt(Grp("fecha", Cat(<<D, D, Chr({"/"}), D, D, Chr({"/"}), D, D>>))),
        Star(Ws),
        Opt(Cat(<<Plus(D), Plus(Ws)>>)),
        Grp("movimiento", LazyStar(Dot)),
        Plus(Ws),
        Alt(<<Cat(<<Grp("credito", MoneyArg), Plus(Ws), Grp("saldo2", MoneyArg)>>),
              Cat(<<Grp("debito", MoneyArg), Plus(Ws), Grp("saldo", MoneyArg)>>)>>),
        Eol>>)

linea_movimiento_stdr ==
  Cat(<<Bol,
        Opt(Grp("fecha", Cat(<<D, D, Chr({"/"}), D, D, Chr({"/"}), D, D>>))),
        Star(Ws),
        Opt(Cat(<<Plus(D), Plus(Ws)>>)),
        Grp("movimiento", LazyStar(Dot)),
        Plus(Ws),
        Alt(<<Cat(<<Grp("debito", MoneyArg), Plus(Ws), Grp("saldo", MoneyArg)>>),
              Cat(<<Grp("credito", MoneyArg), Plus(Ws), Grp("saldo2", MoneyArg)>>)>>),
        Eol>>)

\* re.IGNORECASE; of the accented letters of the class only the one with a
\* stand-in ("#") is in the modelled alphabet
linea_transferencia_stdr ==
  Cat(<<Bol,
        Alt(<<LitI("De"), LitI("A")>>),
        Opt(Cat(<<Plus(Ws),
                  Plus(Chr(UpperAZ \cup LowerAZ \cup Space \cup {"#", ",", "."}))>>)),
        Star(Ws), Chr({"/"}), Star(Ws), LazyStar(Dot), Star(Ws), Chr({"-"}),
        Star(Ws), LazyStar(Dot), Star(Ws), Chr({"/"}), Star(Dot), Eol>>)

\* ------------------------------------------------------------------------
\* HSBC patterns (the same three in the app and in the v06 script)
\* ------------------------------------------------------------------------
\* (?:\d{1,3}(?:,\d{3})*|\d*)
NumUs ==
  Alt(<<Cat(<<Rep(D, 1, 3, TRUE), Star(Cat(<<Chr({","}), D, D, D>>))>>),
        Star(D)>>)

\* (?:\d{1,3}(?:,\d{3})*|\d*)?\.\d{2}
MoneyUs == Cat(<<Opt(NumUs), Chr({"."}), D, D>>)

saldo_anterior_hsbc_re ==
  Cat(<<LitI("SALDO"), Plus(Ws), LitI("ANTERIOR"), LazyStar(Dot),
        Grp("1", Cat(<<NumUs, Chr({"."}), D, D>>)), Eol>>)

linea_con_fecha_hsbc ==
  Cat(<<Bol,
        Grp("fecha", Cat(<<D, D, Chr({"-"}), Times(Chr(UpperAZ), 3)>>)),
        Plus(Ws), Chr({"-"}), Plus(Ws),
        Grp("referencia", Rep(Dot, 1, Inf, FALSE)),
        Plus(Ws), Times(D, 5), Plus(Ws),
        Opt(Grp("debito", MoneyUs)), Star(Ws),
        Opt(Grp("credito", MoneyUs)), Plus(Ws),
        Grp("saldo", MoneyUs)>>)

linea_sin_fecha_hsbc ==
  Cat(<<Bol, Star(Ws), Chr({"-"}), Plus(Ws),
        Grp("referencia", Rep(Dot, 1, Inf, FALSE)),
        Plus(Ws), Times(D, 5), Plus(Ws),
        Opt(Grp("debito", MoneyUs)), Star(Ws),
        Opt(Grp("credito", MoneyUs)), Plus(Ws),
        Grp("saldo", MoneyUs)>>)

\* the v06 script compiles the same three patterns (lines 142-166)
saldo_anterior_regex == saldo_anterior_hsbc_re
linea_con_fecha == linea_con_fecha_hsbc
linea_sin_fecha == linea_sin_fecha_hsbc

\* ------------------------------------------------------------------------
\* Inputs
\* ------------------------------------------------------------------------
MaxLines == 4
\* invocations of one parser in a row
MaxDocs == 2

\* text lines as pdfplumber hands them over (before strip)
LineasStdr ==
  {"Saldo Inicial -$ 1.000,00",
   "05/01/25 Pago -$ 70.833,71 -$ 1.234,00",
   "02/01/25 1234 Deposito $ 500,00 -$ 500,00",
   "  Compra $ 10,00 -$ 1.244,00 ",
   "03/01/25 Transferencia Recibida $ 200,00 -$ 800,00",
   "TRANSFERENCIA REALIZADA $ 50,00 -$ 1.050,00",
   "De Juan Perez / transf - var /123",
   "Pagina 1 de 3",
   "Saldo Inicial $ 100,00 $ 90,00",
   "Ajuste $ 1,2,3 $ 5,00"}

LineasHsbc ==
  {"SALDO ANTERIOR 1,000.00",
   "01-AGO - COMPRA 12345 10.00 990.00",
   "02-AGO - DEPOSITO 12347 234.56 1,234.56",
   " - EXTRACCION 12346 100.00 890.00",
   "- COMISION 12348 .50 889.50",
   "HOJA 1 DE 2"}

Bancos == {"Santander", "HSBC", "HSBC_v06"}

\* unsigned money tokens of each locale
TokensArg ==
  {"$ 1.234,56", "$ 70.833,71", "$ 10,00", "$1,00", "$ 0,50", "$ 200,00",
   "$ 1.000,00"}
TokensUs ==
  {"1,234.56", "10.00", ".50", "1,000.00", "990.00", "0.05", "12,345.00"}
\* what may stand before a token: nothing, the hyphen, the en dash, the em
\* dash, the minus sign, and the en dash as the source file spells it
Glyphs == {"", "-", "~", "^", "=", "!@#"}
Lineas(b) == IF b = "Santander" THEN LineasStdr ELSE LineasHsbc

\* What the patterns of each parser give for each input line, computed once:
\* line is l.strip(), the other fields are the match objects.
PatronesStdr ==
  [raw \in LineasStdr |->
     [line |-> strip(raw),
      m_saldo |-> search(saldo_inicial_stdr_re, strip(raw)),
      m |-> match(linea_movimiento_stdr, strip(raw)),
      m_transf |-> match(linea_transferencia_stdr, strip(raw))]]

PatronesHsbc ==
  [raw \in LineasHsbc |->
     [line |-> strip(raw),
      m_saldo |-> search(saldo_anterior_hsbc_re, strip(raw)),
      m_fecha |-> match(linea_con_fecha_hsbc, strip(raw)),
      m_sf |-> match(linea_sin_fecha_hsbc, strip(raw))]]

PatronesV06 ==
  [raw \in LineasHsbc |->
     [line |-> strip(raw),
      match_saldo |-> search(saldo_anterior_regex, strip(raw)),
      match_con_fecha |-> match(linea_con_fecha, strip(raw)),
      match_sin_fecha |-> match(linea_sin_fecha, strip(raw))]]


\* ------------------------------------------------------------------------
\* Python fragments shared by the loop bodies
\* ------------------------------------------------------------------------
AttributeError == [error |-> "AttributeError"]

\* bool(v) of a str or None
Truthy(v) == IsStr(v) /\ v.str # ""
\* a or b
Or(a, b) == IF Truthy(a) THEN a ELSE b

\* a normalizer applied to what a group() call returned
CallArg(v) == IF IsStr(v) THEN _to_float_money_arg(v.str) ELSE AttributeError
CallUs(v) == IF IsStr(v) THEN _to_float_money_us(v.str) ELSE AttributeError
\* float(text.replace(",", "")) of the v06 script
CallV06(v) == IF IsStr(v) THEN float(replace(v.str, ",", "")) ELSE AttributeError

Fila(fecha, referencia, importe, saldo) ==
  [Fecha |-> fecha, Referencia |-> referencia, Importe |-> importe,
   Saldo |-> saldo]

\* the state of one parse: the locals of the parse function (the globals of
\* the v06 script), whether it is still running, and the branch that the
\* last line took
Locals ==
  [movimientos |-> <<>>, fecha_actual |-> None, fecha_anterior |-> None,
   previous_saldo |-> None, saldo_anterior_registrado |-> FALSE,
   row_transferencia |-> FALSE, current_row |-> None,
   estado |-> "parsing", excepcion |-> None, rama |-> "inicio"]

\* the slip of recording the opening balance as seen at any line
SinCoincidenciaRegistrada(st) ==
  [st EXCEPT !.saldo_anterior_registrado = TRUE, !.rama = "nada"]

\* the slip of resetting the date at a line that carries none
SinCoincidenciaSinFecha(st) ==
  [st EXCEPT !.fecha_actual = None, !.fecha_anterior = None, !.rama = "nada"]

\* the slip of dropping the pending transfer at a line that is not its detail
SinCoincidenciaSinPendiente(st) ==
  [st EXCEPT !.row_transferencia = FALSE, !.current_row = None,
             !.rama = "nada"]

\* a line that no branch takes: nothing is assigned
SinCoincidencia(st) == [st EXCEPT !.rama = "nada"]

\* the slip of skipping the faulty line and going on
RaiseOmitido(st, e) == [st EXCEPT !.rama = "nada"]

Raise(st, e) == [st EXCEPT !.estado = "raised", !.excepcion = e, !.rama = "error"]

\* ------------------------------------------------------------------------
\* parse_santander_pdf: the body of the loop over the lines
\* ------------------------------------------------------------------------
\* the slip of not negating a debit
ImporteSinNegar(m) == CallArg(Or(group(m, "debito"), group(m, "credito")))

\* raw_imp = debito or credito; importe = float; negated if debito
ImporteStdr(m) ==
  LET importe == CallArg(Or(group(m, "debito"), group(m, "credito")))
  IN IF IsError(importe) THEN importe
     ELSE IF Truthy(group(m, "debito")) THEN Float(0 - importe.float)
     ELSE importe

SaldoStdr(m) == CallArg(Or(group(m, "saldo"), group(m, "saldo2")))

\* the slip of adjusting when the balance went down
AjusteSaldoAlBajar(importe, saldo, previous_saldo) ==
  IF ~IsNone(previous_saldo) /\ saldo.float - previous_saldo.float < 0
  THEN Float(0 - importe.float) ELSE importe

\* adjustment when the balance went up
AjusteSaldo(importe, saldo, previous_saldo) ==
  IF ~IsNone(previous_saldo) /\ saldo.float - previous_saldo.float > 0
  THEN Float(0 - importe.float) ELSE importe

EsTransferencia(referencia) ==
  lower(referencia) \in {"transferencia recibida", "transferencia realizada"}

\* the slip of joining with a blank only
ReferenciaConBlanco(referencia, line) == referencia \o " " \o line

ReferenciaFusion(referencia, line) == referencia \o " - " \o line

\* the slip of leaving previous_saldo as it was at the opening balance
SaldoInicialSinPrevio(st, m_saldo) ==
  LET saldo_inicial == CallArg(group(m_saldo, "1"))
  IN IF IsError(saldo_inicial) THEN Raise(st, saldo_inicial)
     ELSE [st EXCEPT
             !.movimientos = Append(@, Fila(Str(""), Str("Saldo Inicial"),
                                            Str(""), saldo_inicial)),
             !.saldo_anterior_registrado = TRUE,
             !.rama = "saldo"]

\* 1) Saldo Inicial
SaldoInicialStdr(st, m_saldo) ==
  LET saldo_inicial == CallArg(group(m_saldo, "1"))
  IN IF IsError(saldo_inicial) THEN Raise(st, saldo_inicial)
     ELSE [st EXCEPT
             !.movimientos = Append(@, Fila(Str(""), Str("Saldo Inicial"),
                                            Str(""), saldo_inicial)),
             !.previous_saldo = saldo_inicial,
             !.saldo_anterior_registrado = TRUE,
             !.rama = "saldo"]

\* the slip of not inheriting the date
FechaSinHerencia(fecha, fecha_anterior) == fecha

\* fecha_actual of a movement line: its own date, else the inherited one
FechaStdr(fecha, fecha_anterior) ==
  IF Truthy(fecha) THEN fecha ELSE fecha_anterior

\* the slip of updating previous_saldo only when the row is appended
RetenerSinSaldo(st, row, saldo) ==
  [st EXCEPT !.current_row = row,
             !.row_transferencia = TRUE,
             !.rama = "cabecera"]

\* a transfer header: the row is held back; previous_saldo = saldo
Retener(st, row, saldo) ==
  [st EXCEPT !.current_row = row,
             !.row_transferencia = TRUE,
             !.previous_saldo = saldo,
             !.rama = "cabecera"]

\* the slip of leaving the held row in place when a movement is appended
EmitirSinLimpiar(st, row, saldo) ==
  [st EXCEPT !.movimientos = Append(@, row),
             !.row_transferencia = FALSE,
             !.previous_saldo = saldo,
             !.rama = "movimiento"]

\* any other movement: the row is appended; previous_saldo = saldo
Emitir(st, row, saldo) ==
  [st EXCEPT !.movimientos = Append(@, row),
             !.row_transferencia = FALSE,
             !.current_row = None,
             !.previous_saldo = saldo,
             !.rama = "movimiento"]

\* 2) movement line
MovimientoStdr(st, m) ==
  LET fecha == group(m, "fecha")
      fecha_actual == FechaStdr(fecha, st.fecha_anterior)
      fecha_anterior == IF Truthy(fecha) THEN fecha ELSE st.fecha_anterior
      referencia == strip(Or(group(m, "movimiento"), Str("")).str)
      importe0 == ImporteStdr(m)
      saldo == SaldoStdr(m)
      importe == AjusteSaldo(importe0, saldo, st.previous_saldo)
      row == Fila(fecha_actual, Str(referencia), importe, saldo)
      dated == [st EXCEPT !.fecha_actual = fecha_actual,
                          !.fecha_anterior = fecha_anterior]
  IN IF IsError(importe0) THEN Raise(dated, importe0)
     ELSE IF IsError(saldo) THEN Raise(dated, saldo)
     ELSE IF EsTransferencia(referencia)
     THEN Retener(dated, row, saldo)
     ELSE Emitir(dated, row, saldo)

\* the slip of dropping the pending transfer at its detail line
DetalleSinEmitir(st, line) ==
  IF st.row_transferencia /\ ~IsNone(st.current_row)
  THEN [st EXCEPT !.row_transferencia = FALSE, !.current_row = None,
                  !.rama = "detalle"]
  ELSE [st EXCEPT !.rama = "detalle"]

\* 3) transfer detail
DetalleStdr(st, line) ==
  IF st.row_transferencia /\ ~IsNone(st.current_row)
  THEN [st EXCEPT
          !.movimientos =
             Append(@, Fila(st.current_row.Fecha,
                            Str(ReferenciaFusion(st.current_row.Referencia.str,
                                                 line)),
                            st.current_row.Importe, st.current_row.Saldo)),
          !.row_transferencia = FALSE,
          !.current_row = None,
          !.rama = "fusion"]
  ELSE [st EXCEPT !.rama = "detalle"]

santander_line(st, raw) ==
  LET line == PatronesStdr[raw].line
      m_saldo == PatronesStdr[raw].m_saldo
      m == PatronesStdr[raw].m
  IN IF ~st.saldo_anterior_registrado /\ m_saldo.matched
     THEN SaldoInicialStdr(st, m_saldo)
     ELSE IF m.matched THEN MovimientoStdr(st, m)
     ELSE IF PatronesStdr[raw].m_transf.matched
     THEN DetalleStdr(st, line)
     ELSE SinCoincidencia(st)

\* ------------------------------------------------------------------------
\* parse_hsbc_pdf: the body of the loop over the lines
\* ------------------------------------------------------------------------
\* round(saldo - previous_saldo, 2) if previous_saldo is not None else 0.0
ImporteHsbc(saldo, previous_saldo) ==
  IF ~IsNone(previous_saldo) THEN Float(saldo.float - previous_saldo.float)
  ELSE Float(0)

\* the slip of not recording that the opening balance was seen
SaldoAnteriorSinRegistro(st, saldo_inicial) ==
  IF IsError(saldo_inicial) THEN Raise(st, saldo_inicial)
  ELSE [st EXCEPT
          !.movimientos = Append(@, Fila(Str(""), Str("SALDO ANTERIOR"),
                                         Str(""), saldo_inicial)),
          !.previous_saldo = saldo_inicial,
          !.rama = "saldo"]

SaldoAnteriorHsbc(st, saldo_inicial) ==
  IF IsError(saldo_inicial) THEN Raise(st, saldo_inicial)
  ELSE [st EXCEPT
          !.movimientos = Append(@, Fila(Str(""), Str("SALDO ANTERIOR"),
                                         Str(""), saldo_inicial)),
          !.previous_saldo = saldo_inicial,
          !.saldo_anterior_registrado = TRUE,
          !.rama = "saldo"]

\* the append of a dated or undated line, given its date, balance and amount
MovimientoHsbc(st, fecha_actual, m, saldo, importe) ==
  LET referencia == strip(Or(group(m, "referencia"), Str("")).str)
      dated == [st EXCEPT !.fecha_actual = fecha_actual]
  IN IF IsError(saldo) THEN Raise(dated, saldo)
     ELSE IF IsError(importe) THEN Raise(dated, importe)
     ELSE [dated EXCEPT
             !.movimientos = Append(@, Fila(fecha_actual, Str(referencia),
                                            importe, saldo)),
             !.previous_saldo = saldo,
             !.rama = "movimiento"]

\* the slip of taking an undated line without a date to inherit
TomaSinFechaSiempre(m_sf, fecha_actual) == m_sf.matched

\* if m_sf and fecha_actual
TomaSinFecha(m_sf, fecha_actual) == m_sf.matched /\ Truthy(fecha_actual)

hsbc_line(st, raw) ==
  LET m_saldo == PatronesHsbc[raw].m_saldo
      m_fecha == PatronesHsbc[raw].m_fecha
      m_sf == PatronesHsbc[raw].m_sf
  IN IF ~st.saldo_anterior_registrado /\ m_saldo.matched
     THEN SaldoAnteriorHsbc(st, CallUs(group(m_saldo, "1")))
     ELSE IF m_fecha.matched
     THEN LET saldo == CallUs(group(m_fecha, "saldo"))
          IN MovimientoHsbc(st, group(m_fecha, "fecha"), m_fecha, saldo,
                            ImporteHsbc(saldo, st.previous_saldo))
     ELSE IF TomaSinFecha(m_sf, st.fecha_actual)
     THEN LET saldo == CallUs(group(m_sf, "saldo"))
          IN MovimientoHsbc(st, st.fecha_actual, m_sf, saldo,
                            ImporteHsbc(saldo, st.previous_saldo))
     ELSE SinCoincidencia(st)

\* ------------------------------------------------------------------------
\* The v06 script: the body of its module-level loop (same patterns)
\* ------------------------------------------------------------------------
\* round(saldo - previous_saldo, 2): float - None raises TypeError
ImporteV06(saldo, previous_saldo) ==
  IF IsNone(previous_saldo) THEN TypeError
  ELSE Float(saldo.float - previous_saldo.float)

v06_line(st, raw) ==
  LET match_saldo == PatronesV06[raw].match_saldo
      match_con_fecha == PatronesV06[raw].match_con_fecha
      match_sin_fecha == PatronesV06[raw].match_sin_fecha
  IN IF ~st.saldo_anterior_registrado /\ match_saldo.matched
     THEN SaldoAnteriorHsbc(st, CallV06(group(match_saldo, "1")))
     ELSE IF match_con_fecha.matched
     THEN LET saldo == CallV06(group(match_con_fecha, "saldo"))
          IN MovimientoHsbc(st, group(match_con_fecha, "fecha"),
                            match_con_fecha, saldo,
                            ImporteV06(saldo, st.previous_saldo))
     ELSE IF TomaSinFecha(match_sin_fecha, st.fecha_actual)
     THEN LET saldo == CallV06(group(match_sin_fecha, "saldo"))
          IN MovimientoHsbc(st, st.fecha_actual, match_sin_fecha, saldo,
                            ImporteV06(saldo, st.previous_saldo))
     ELSE SinCoincidencia(st)

\* ------------------------------------------------------------------------
\* The callers: bank dispatch, frames and summaries
\* ------------------------------------------------------------------------
\* the two identifiers of the sidebar, and one that is neither
Choices ==
  {"Santander OCR Extract", "HSBC OCR Extract", "Galicia OCR Extract"}

\* if choice == "Santander OCR Extract": ... else: ...
Dispatch(c) == IF c = "Santander OCR Extract" THEN "Santander" ELSE "HSBC"

\* pd.DataFrame(movimientos)
DataFrame(ms) == [rows |-> ms]

KeyError == [error |-> "KeyError"]
IndexError == [error |-> "IndexError"]

\* pd.to_numeric(..., errors="coerce") of an Importe cell, as sum() counts
\* it: "" becomes NaN, which sum() skips
Numerico(v) == IF IsFloat(v) THEN v.float ELSE 0

RECURSIVE SumaImporte(_, _)
SumaImporte(ms, ref) ==
  IF ms = <<>> THEN 0
  ELSE SumaImporte(SubSeq(ms, 1, Len(ms) - 1), ref)
         + (IF ms[Len(ms)].Referencia = ref
            THEN Numerico(ms[Len(ms)].Importe) ELSE 0)

\* groupby("Referencia").agg(Sum_Importe = sum, Cantidad = count)
Agrupar(ms) ==
  [ref \in {ms[i].Referencia : i \in 1..Len(ms)} |->
     [Sum_Importe |-> SumaImporte(ms, ref),
      Cantidad |-> Cardinality({i \in 1..Len(ms) : ms[i].Referencia = ref})]]

RECURSIVE SumaColumna(_, _, _)
SumaColumna(g, refs, col) ==
  IF refs = {} THEN 0
  ELSE LET ref == CHOOSE r \in refs : TRUE
       IN g[ref][col] + SumaColumna(g, refs \ {ref}, col)

\* the summary with its TOTAL row (the percentage columns are left out)
ConTotal(g) ==
  [grupos |-> g,
   TOTAL |-> [Sum_Importe |-> SumaColumna(g, DOMAIN g, "Sum_Importe"),
              Cantidad |-> SumaColumna(g, DOMAIN g, "Cantidad")]]

build_summary(df_movs) ==
  IF df_movs.rows = <<>> THEN [grupos |-> <<>>]
  ELSE ConTotal(Agrupar(SelectSeq(df_movs.rows,
                  LAMBDA row : row.Referencia # Str("Saldo Inicial"))))

\* summary(df) of the v06 script: a frame without rows has no column
\* 'Importe'; with one row df_work is empty and iloc[-1] fails
summary(df) ==
  IF df.rows = <<>> THEN KeyError
  ELSE IF Len(df.rows) = 1 THEN IndexError
  ELSE ConTotal(Agrupar(SubSeq(df.rows, 2, Len(df.rows))))

\* the slip of keeping the parser state of the last invocation
EntradaHeredada(st) ==
  [st EXCEPT !.movimientos = <<>>, !.estado = "parsing",
             !.excepcion = None, !.rama = "inicio"]

\* the state a new invocation starts from, whatever the last one left
Entrada(st) == Locals

\* ------------------------------------------------------------------------
\* The parse as a state machine
\* ------------------------------------------------------------------------
VARIABLES
  banco,        \* which program runs
  movimientos, fecha_actual, fecha_anterior, previous_saldo,
  saldo_anterior_registrado, row_transferencia, current_row,
  estado,       \* "parsing", "returned" (the frame was built) or "raised"
  excepcion,    \* what was raised
  rama,         \* the branch the last line took
  leidas,       \* history: the lines consumed so far
  origen,       \* history: for every movement, the index of the line that built it
  origen_row,   \* history: the index of the line that built current_row, or 0
  choice,       \* the bank identifier the caller selected ("" in the v06 script)
  df_movs,      \* the caller's frame of movements, None while it has none
  df_summary,   \* the caller's summary, None while it has none
  documento,    \* which invocation of the parser this is (1, 2, ...)
  anteriores,   \* history: the lines consumed by the earlier invocations
  locale,       \* a normalizer called on its own: "ARG", "US" or "" (none)
  glyph, token, \* its argument: a dash glyph followed by an unsigned token
  valor         \* what it returned or raised, None before the call

vars ==
  <<banco, movimientos, fecha_actual, fecha_anterior, previous_saldo,
    saldo_anterior_registrado, row_transferencia, current_row, estado,
    excepcion, rama, leidas, origen, origen_row, choice, df_movs,
    df_summary, documento, anteriores, locale, glyph, token, valor>>

\* the variables of a normalizer call on its own
money_vars == <<locale, glyph, token, valor>>

State ==
  [movimientos |-> movimientos, fecha_actual |-> fecha_actual,
   fecha_anterior |-> fecha_anterior, previous_saldo |-> previous_saldo,
   saldo_anterior_registrado |-> saldo_anterior_registrado,
   row_transferencia |-> row_transferencia, current_row |-> current_row,
   estado |-> estado, excepcion |-> excepcion, rama |-> rama]

Init ==
  /\ banco \in Bancos
  /\ choice \in {c \in Choices \cup {""} :
                   IF c = "" THEN banco = "HSBC_v06" ELSE banco = Dispatch(c)}
  /\ df_movs = None
  /\ df_summary = None
  /\ documento = 1
  /\ anteriores = 0
  /\ locale = "" /\ glyph = "" /\ token = "" /\ valor = None
  /\ movimientos = Locals.movimientos
  /\ fecha_actual = Locals.fecha_actual
  /\ fecha_anterior = Locals.fecha_anterior
  /\ previous_saldo = Locals.previous_saldo
  /\ saldo_anterior_registrado = Locals.saldo_anterior_registrado
  /\ row_transferencia = Locals.row_transferencia
  /\ current_row = Locals.current_row
  /\ estado = Locals.estado
  /\ excepcion = Locals.excepcion
  /\ rama = Locals.rama
  /\ leidas = <<>>
  /\ origen = <<>>
  /\ origen_row = 0

\* the effect r of one loop body on the variables, for input line raw
Consume(r, raw) ==
  /\ movimientos' = r.movimientos
  /\ fecha_actual' = r.fecha_actual
  /\ fecha_anterior' = r.fecha_anterior
  /\ previous_saldo' = r.previous_saldo
  /\ saldo_anterior_registrado' = r.saldo_anterior_registrado
  /\ row_transferencia' = r.row_transferencia
  /\ current_row' = r.current_row
  /\ estado' = r.estado
  /\ excepcion' = r.excepcion
  /\ rama' = r.rama
  /\ leidas' = Append(leidas, raw)
  /\ origen' = IF r.rama \in {"saldo", "movimiento"}
               THEN Append(origen, Len(leidas) + 1)
               ELSE IF r.rama = "fusion" THEN Append(origen, origen_row)
               ELSE origen
  /\ origen_row' = IF r.rama = "cabecera" THEN Len(leidas) + 1
                   ELSE IF r.rama \in {"movimiento", "fusion"} THEN 0
                   ELSE origen_row
  /\ UNCHANGED <<banco, choice, df_movs, df_summary, documento, anteriores>>
  /\ UNCHANGED money_vars

SantanderLine ==
  /\ banco = "Santander" /\ estado = "parsing"
  /\ anteriores + Len(leidas) < MaxLines
  /\ \E raw \in LineasStdr :
       \E r \in {santander_line(State, raw)} : Consume(r, raw)

HsbcLine ==
  /\ banco = "HSBC" /\ estado = "parsing"
  /\ anteriores + Len(leidas) < MaxLines
  /\ \E raw \in LineasHsbc :
       \E r \in {hsbc_line(State, raw)} : Consume(r, raw)

V06Line ==
  /\ banco = "HSBC_v06" /\ estado = "parsing"
  /\ anteriores + Len(leidas) < MaxLines
  /\ \E raw \in LineasHsbc :
       \E r \in {v06_line(State, raw)} : Consume(r, raw)

\* end of the input: the parser returns pd.DataFrame(movimientos) to the
\* caller, which keeps it and summarises it (the App only when it is not
\* empty; the v06 script always, and its summary may raise)
Return ==
  /\ estado = "parsing"
  /\ rama' = "fin"
  /\ df_movs' = DataFrame(movimientos)
  /\ IF banco = "HSBC_v06"
     THEN LET s == summary(DataFrame(movimientos))
          IN IF IsError(s)
             THEN estado' = "raised" /\ excepcion' = s /\ df_summary' = None
             ELSE estado' = "returned" /\ df_summary' = s
                  /\ UNCHANGED excepcion
     ELSE /\ estado' = "returned"
          /\ df_summary' = IF movimientos = <<>> THEN None
                           ELSE build_summary(DataFrame(movimientos))
          /\ UNCHANGED excepcion
  /\ UNCHANGED <<banco, movimientos, fecha_actual, fecha_anterior,
                 previous_saldo, saldo_anterior_registrado, row_transferencia,
                 current_row, leidas, origen, origen_row, choice, documento,
                 anteriores>>
  /\ UNCHANGED money_vars

Next == SantanderLine \/ HsbcLine \/ V06Line \/ Return

Spec == Init /\ [][Next]_vars

\* the same parser is run again on another document, after a document that
\* had lines: a new call of the parse function (a new run of the v06 script)
Invoke ==
  /\ estado \in {"returned", "raised"}
  /\ documento < MaxDocs
  /\ leidas # <<>>
  /\ LET st == Entrada(State)
     IN /\ movimientos' = st.movimientos
        /\ fecha_actual' = st.fecha_actual
        /\ fecha_anterior' = st.fecha_anterior
        /\ previous_saldo' = st.previous_saldo
        /\ saldo_anterior_registrado' = st.saldo_anterior_registrado
        /\ row_transferencia' = st.row_transferencia
        /\ current_row' = st.current_row
        /\ estado' = st.estado
        /\ excepcion' = st.excepcion
        /\ rama' = st.rama
  /\ leidas' = <<>>
  /\ origen' = <<>>
  /\ origen_row' = 0
  /\ df_movs' = None
  /\ df_summary' = None
  /\ documento' = documento + 1
  /\ anteriores' = anteriores + Len(leidas)
  /\ UNCHANGED <<banco, choice>>
  /\ UNCHANGED money_vars

NextDos == Next \/ Invoke

SpecDos == Init /\ [][NextDos]_vars

\* ------------------------------------------------------------------------
\* The money normalizers on their own
\* ------------------------------------------------------------------------
InitMoney ==
  /\ banco = "Santander"
  /\ choice = "Santander OCR Extract"
  /\ movimientos = Locals.movimientos
  /\ fecha_actual = Locals.fecha_actual
  /\ fecha_anterior = Locals.fecha_anterior
  /\ previous_saldo = Locals.previous_saldo
  /\ saldo_anterior_registrado = Locals.saldo_anterior_registrado
  /\ row_transferencia = Locals.row_transferencia
  /\ current_row = Locals.current_row
  /\ estado = "returned"
  /\ excepcion = Locals.excepcion
  /\ rama = Locals.rama
  /\ leidas = <<>> /\ origen = <<>> /\ origen_row = 0
  /\ df_movs = None /\ df_summary = None
  /\ documento = 1 /\ anteriores = 0
  /\ locale \in {"ARG", "US"}
  /\ glyph \in Glyphs
  /\ token \in IF locale = "ARG" THEN TokensArg ELSE TokensUs
  /\ valor = None

\* one call: _to_float_money_arg(raw) or _to_float_money_us(raw)
Normalize ==
  /\ locale # "" /\ valor = None
  /\ valor' = IF locale = "ARG" THEN _to_float_money_arg(glyph \o token)
              ELSE _to_float_money_us(glyph \o token)
  /\ UNCHANGED <<banco, movimientos, fecha_actual, fecha_anterior,
                 previous_saldo, saldo_anterior_registrado, row_transferencia,
                 current_row, estado, excepcion, rama, leidas, origen,
                 origen_row, choice, df_movs, df_summary, documento,
                 anteriores, locale, glyph, token>>

NextMoney == Normalize

SpecMoney == InitMoney /\ [][NextMoney]_vars

\* ------------------------------------------------------------------------
\* How the document reads: what each consumed line is, told from the text
\* of the lines alone (ls is a sequence of lines of bank b)
\* ------------------------------------------------------------------------
Last(s) == s[Len(s)]

CasaSaldo(b, raw) ==
  CASE b = "Santander" -> PatronesStdr[raw].m_saldo.matched
    [] b = "HSBC" -> PatronesHsbc[raw].m_saldo.matched
    [] b = "HSBC_v06" -> PatronesV06[raw].match_saldo.matched

CasaFechada(b, raw) ==
  CASE b = "Santander" -> /\ PatronesStdr[raw].m.matched
                          /\ Truthy(group(PatronesStdr[raw].m, "fecha"))
    [] b = "HSBC" -> PatronesHsbc[raw].m_fecha.matched
    [] b = "HSBC_v06" -> PatronesV06[raw].match_con_fecha.matched

CasaSinFecha(b, raw) ==
  CASE b = "Santander" -> /\ PatronesStdr[raw].m.matched
                          /\ ~Truthy(group(PatronesStdr[raw].m, "fecha"))
    [] b = "HSBC" -> /\ ~PatronesHsbc[raw].m_fecha.matched
                     /\ PatronesHsbc[raw].m_sf.matched
    [] b = "HSBC_v06" -> /\ ~PatronesV06[raw].match_con_fecha.matched
                         /\ PatronesV06[raw].match_sin_fecha.matched

\* the opening-balance line of the document: the first line that carries
\* the opening-balance pattern
ComoSaldo(b, ls, k) ==
  /\ CasaSaldo(b, ls[k])
  /\ \A j \in 1..(k - 1) : ~CasaSaldo(b, ls[j])

ComoFechada(b, ls, k) == ~ComoSaldo(b, ls, k) /\ CasaFechada(b, ls[k])

\* an undated movement line; the HSBC parsers take one only after a date
ComoSinFecha(b, ls, k) ==
  /\ ~ComoSaldo(b, ls, k)
  /\ CasaSinFecha(b, ls[k])
  /\ b = "Santander" \/ \E j \in 1..(k - 1) : ComoFechada(b, ls, j)

ComoMovimiento(b, ls, k) == ComoFechada(b, ls, k) \/ ComoSinFecha(b, ls, k)

\* the date token of a dated line
FechaDe(b, raw) ==
  CASE b = "Santander" -> group(PatronesStdr[raw].m, "fecha")
    [] b = "HSBC" -> group(PatronesHsbc[raw].m_fecha, "fecha")
    [] b = "HSBC_v06" -> group(PatronesV06[raw].match_con_fecha, "fecha")

\* the balance that line k of the document states
SaldoDe(b, ls, k) ==
  LET raw == ls[k]
  IN CASE b = "Santander" ->
            IF ComoSaldo(b, ls, k)
            THEN CallArg(group(PatronesStdr[raw].m_saldo, "1"))
            ELSE CallArg(group(PatronesStdr[raw].m, "saldo"))
       [] b = "HSBC" ->
            IF ComoSaldo(b, ls, k)
            THEN CallUs(group(PatronesHsbc[raw].m_saldo, "1"))
            ELSE IF PatronesHsbc[raw].m_fecha.matched
            THEN CallUs(group(PatronesHsbc[raw].m_fecha, "saldo"))
            ELSE CallUs(group(PatronesHsbc[raw].m_sf, "saldo"))
       [] b = "HSBC_v06" ->
            IF ComoSaldo(b, ls, k)
            THEN CallV06(group(PatronesV06[raw].match_saldo, "1"))
            ELSE IF PatronesV06[raw].match_con_fecha.matched
            THEN CallV06(group(PatronesV06[raw].match_con_fecha, "saldo"))
            ELSE CallV06(group(PatronesV06[raw].match_sin_fecha, "saldo"))

Marcador(b) == IF b = "Santander" THEN "Saldo Inicial" ELSE "SALDO ANTERIOR"

EsCentinela(b, row) ==
  /\ row.Fecha = Str("")
  /\ row.Referencia = Str(Marcador(b))
  /\ row.Importe = Str("")

\* ------------------------------------------------------------------------
\* Claims
\* ------------------------------------------------------------------------

\* C1 (as claimed): in both parsers, if the output is non-empty its first
\* element is the initial-balance sentinel (empty date, the marker as
\* reference, empty amount), also when a movement line precedes the
\* opening-balance line.  The parsers emit a movement that precedes the
\* opening-balance line before the sentinel, so this is violated.
C1_SentinelFirst ==
  movimientos # <<>> => EsCentinela(banco, movimientos[1])

\* C2 (as claimed): at every point of the parse previous_saldo equals the
\* balance of the last emitted movement, or is unset when nothing was
\* emitted.  A withheld Santander transfer header breaks it.
C2_PreviousIsLastEmitted ==
  estado # "raised" =>
    previous_saldo = IF movimientos = <<>> THEN None
                     ELSE Last(movimientos).Saldo

\* C2 (amended): at every point of the parse previous_saldo equals the
\* balance stated by the most recent line consumed as opening balance or as
\* movement line, whether its movement was emitted or withheld (unset when
\* there is none); in the HSBC parsers, which withhold nothing, that is the
\* balance of the last emitted movement.
C2_PreviousIsLastLine ==
  estado # "raised" =>
    LET ks == {k \in 1..Len(leidas) :
                 ComoSaldo(banco, leidas, k) \/ ComoMovimiento(banco, leidas, k)}
        last == CHOOSE k \in ks : \A j \in ks : j <= k
    IN /\ previous_saldo = IF ks = {} THEN None ELSE SaldoDe(banco, leidas, last)
       /\ banco # "Santander" =>
            previous_saldo = IF movimientos = <<>> THEN None
                             ELSE Last(movimientos).Saldo

\* C2 witness: a Santander transfer header was withheld after an emitted
\* movement, so previous_saldo is the withheld balance and not the balance
\* of the last emitted movement.
C2_Witness ==
  /\ banco = "Santander"
  /\ estado = "parsing"
  /\ movimientos # <<>>
  /\ ~IsNone(current_row)
  /\ previous_saldo = current_row.Saldo
  /\ previous_saldo # Last(movimientos).Saldo

\* a step that consumes one more line, as a movement line, without raising
TomaMovimiento ==
  /\ Len(leidas') = Len(leidas) + 1
  /\ estado' = "parsing"
  /\ ComoMovimiento(banco, leidas', Len(leidas'))

\* the movement that such a step built: appended, or withheld in current_row
Construida(ms, row) == IF row # None THEN row ELSE Last(ms)

\* the amount that the debit/credit fields of a Santander line give alone:
\* the token negated if from the debit field, unchanged if from the credit
\* field
Ingenuo(raw) ==
  LET m == PatronesStdr[raw].m
  IN IF IsStr(group(m, "debito"))
     THEN Float(0 - CallArg(group(m, "debito")).float)
     ELSE CallArg(group(m, "credito"))

\* C3: Santander, for every movement line: if previous_saldo is known and
\* the balance of the line is greater than previous_saldo, the amount of
\* the movement built is the negation of the naive debit/credit amount;
\* otherwise it is the naive amount unchanged.
C3_Inversion ==
  [][(banco = "Santander" /\ TomaMovimiento) =>
       LET raw == Last(leidas')
           saldo == SaldoDe(banco, leidas', Len(leidas'))
       IN Construida(movimientos', current_row').Importe =
            IF ~IsNone(previous_saldo) /\ saldo.float > previous_saldo.float
            THEN Float(0 - Ingenuo(raw).float)
            ELSE Ingenuo(raw)]_vars

\* C3 witness: a movement line whose balance (-500.00) is above the known
\* previous balance (-1000.00) was emitted with the naive amount -500.00
\* inverted to +500.00.
C3_Witness ==
  /\ banco = "Santander"
  /\ leidas = <<"Saldo Inicial -$ 1.000,00",
                "02/01/25 1234 Deposito $ 500,00 -$ 500,00">>
  /\ Len(movimientos) = 2
  /\ Ingenuo(leidas[2]) = Float(0 - 50000)
  /\ movimientos[2].Importe = Float(50000)

\* C4 (as claimed): Santander, the line with debit token "-$ 70.833,71" and
\* balance token "-$ 1.234,00", consumed when previous_saldo = -1000.00, is
\* emitted with amount -70833.71 and balance -1234.00.
C4_DebitKeepsTokenSign ==
  [][(/\ banco = "Santander"
      /\ previous_saldo = Float(0 - 100000)
      /\ leidas' = Append(leidas, "05/01/25 Pago -$ 70.833,71 -$ 1.234,00")
      /\ TomaMovimiento) =>
       /\ movimientos' # movimientos
       /\ Last(movimientos').Importe = Float(0 - 7083371)
       /\ Last(movimientos').Saldo = Float(0 - 123400)]_vars

\* C4 (amended): that line, consumed when previous_saldo = -1000.00, is
\* emitted with amount +70833.71 (the token -70833.71 negated because it
\* came from the debit field; no inversion, the balance decreased) and
\* balance -1234.00.
C4_DebitNegated ==
  [][(/\ banco = "Santander"
      /\ previous_saldo = Float(0 - 100000)
      /\ leidas' = Append(leidas, "05/01/25 Pago -$ 70.833,71 -$ 1.234,00")
      /\ TomaMovimiento) =>
       /\ movimientos' # movimientos
       /\ Last(movimientos').Importe = Float(7083371)
       /\ Last(movimientos').Saldo = Float(0 - 123400)]_vars

\* C4 witness: the line was consumed right after the opening balance
\* -1000.00 and its movement was emitted.
C4_Witness ==
  /\ banco = "Santander"
  /\ leidas = <<"Saldo Inicial -$ 1.000,00",
                "05/01/25 Pago -$ 70.833,71 -$ 1.234,00">>
  /\ group(PatronesStdr[leidas[2]].m, "debito") = Str("-$ 70.833,71")
  /\ movimientos[1].Saldo = Float(0 - 100000)
  /\ Last(movimientos) = Fila(Str("05/01/25"), Str("Pago"), Float(7083371),
                              Float(0 - 123400))

\* C5 (as claimed): delta strategy (HSBC), for every output position after
\* the first, the balance of the preceding element plus the amount of the
\* element is its balance.  A sentinel emitted after a movement (see C1)
\* has no amount, so this is violated.
C5_DeltaChain ==
  banco \in {"HSBC", "HSBC_v06"} =>
    \A i \in 2..Len(movimientos) :
      /\ IsFloat(movimientos[i].Importe)
      /\ movimientos[i - 1].Saldo.float + movimientos[i].Importe.float
           = movimientos[i].Saldo.float

\* C6 (as claimed): in every HSBC implementation, a dated movement line
\* consumed while previous_saldo is still unset is emitted with amount 0 and
\* the parse goes on.  The v06 script raises TypeError there.
C6_FirstMovementIsZero ==
  [][(/\ banco \in {"HSBC", "HSBC_v06"}
      /\ estado = "parsing"
      /\ IsNone(previous_saldo)
      /\ Len(leidas') = Len(leidas) + 1
      /\ ComoFechada(banco, leidas', Len(leidas'))) =>
       /\ estado' = "parsing"
       /\ Len(movimientos') = Len(movimientos) + 1
       /\ Last(movimientos').Importe = Float(0)]_vars

\* the reference text of a Santander movement line
ReferenciaDe(raw) == strip(Or(group(PatronesStdr[raw].m, "movimiento"), Str("")).str)

\* line k is a Santander movement line whose reference is a transfer marker
ComoCabecera(ls, k) ==
  /\ ComoMovimiento("Santander", ls, k)
  /\ lower(ReferenciaDe(ls[k])) \in
       {"transferencia recibida", "transferencia realizada"}

\* line k is consumed as a transfer-detail line: it is neither the opening
\* balance nor a movement line, and it has the detail shape
ComoDetalle(ls, k) ==
  /\ ~ComoSaldo("Santander", ls, k)
  /\ ~PatronesStdr[ls[k]].m.matched
  /\ PatronesStdr[ls[k]].m_transf.matched

Emitida(k) == \E i \in 1..Len(origen) : origen[i] = k

\* C7: Santander, the movement of a transfer header is in the output if and
\* only if a transfer-detail line was consumed after it with no movement
\* line in between; otherwise (another movement line first, or the end of
\* the input) it is not in the output, and the parse still returns.
C7_TransferLoss ==
  (banco = "Santander" /\ estado # "raised") =>
    /\ \A k \in 1..Len(leidas) :
         ComoCabecera(leidas, k) =>
           (Emitida(k) <=>
              \E d \in (k + 1)..Len(leidas) :
                /\ ComoDetalle(leidas, d)
                /\ \A j \in (k + 1)..(d - 1) :
                     ~ComoMovimiento(banco, leidas, j))
    /\ IsNone(excepcion)

\* C7 witness: the input ended after a transfer header that was followed by
\* another movement line and then by a detail line; the parse returned and
\* the header's movement is not in the output.
C7_Witness ==
  /\ banco = "Santander"
  /\ estado = "returned"
  /\ Len(leidas) = 3
  /\ ComoCabecera(leidas, 1)
  /\ ComoMovimiento(banco, leidas, 2) /\ ~ComoCabecera(leidas, 2)
  /\ ComoDetalle(leidas, 3)
  /\ origen = <<2>>

\* C8: Santander transfer merge.  A transfer header (reference equal, case
\* ignored, to one of the two markers) emits nothing and holds the movement
\* computed at that line; a detail line consumed right after it emits
\* exactly that movement, once, with reference header reference + " - " +
\* detail line; a detail line consumed when no transfer is pending emits
\* nothing.
C8_TransferMerge ==
  [][banco = "Santander" =>
       /\ (TomaMovimiento /\ ComoCabecera(leidas', Len(leidas'))) =>
            LET raw == Last(leidas')
                saldo == SaldoDe(banco, leidas', Len(leidas'))
            IN /\ movimientos' = movimientos
               /\ current_row' =
                    Fila(IF CasaFechada(banco, raw) THEN FechaDe(banco, raw)
                         ELSE fecha_anterior,
                         Str(ReferenciaDe(raw)),
                         IF ~IsNone(previous_saldo)
                            /\ saldo.float > previous_saldo.float
                         THEN Float(0 - Ingenuo(raw).float)
                         ELSE Ingenuo(raw),
                         saldo)
       /\ (/\ estado = "parsing"
           /\ Len(leidas) >= 1
           /\ ComoCabecera(leidas, Len(leidas))
           /\ Len(leidas') = Len(leidas) + 1
           /\ ComoDetalle(leidas', Len(leidas'))) =>
            /\ movimientos' =
                 Append(movimientos,
                        Fila(current_row.Fecha,
                             Str(current_row.Referencia.str \o " - "
                                   \o strip(Last(leidas'))),
                             current_row.Importe, current_row.Saldo))
            /\ Cardinality({i \in 1..Len(origen') :
                              origen'[i] = Len(leidas)}) = 1
            /\ current_row' = None
       /\ (/\ IsNone(current_row)
           /\ Len(leidas') = Len(leidas) + 1
           /\ ComoDetalle(leidas', Len(leidas'))) =>
            movimientos' = movimientos]_vars

\* C8 witness: the header "Transferencia Recibida" followed at once by the
\* detail line gave exactly one movement with the joined reference, and a
\* second detail line emitted nothing.
C8_Witness ==
  /\ banco = "Santander"
  /\ leidas = <<"03/01/25 Transferencia Recibida $ 200,00 -$ 800,00",
                "De Juan Perez / transf - var /123",
                "De Juan Perez / transf - var /123">>
  /\ movimientos =
       <<Fila(Str("03/01/25"),
              Str("Transferencia Recibida - De Juan Perez / transf - var /123"),
              Float(0 - 20000), Float(0 - 80000))>>

\* C9: date inheritance, both parsers.  A movement built from a dated line
\* carries that line's date token; a movement built from an undated line
\* carries the date token of the most recent dated movement line before it
\* (also when that line was a withheld transfer header).
C9_DateInheritance ==
  estado # "raised" =>
    \A i \in 1..Len(movimientos) :
      LET k == origen[i]
          js == {j \in 1..(k - 1) : ComoFechada(banco, leidas, j)}
          j0 == CHOOSE j \in js : \A x \in js : x <= j
      IN /\ movimientos[i].Saldo = SaldoDe(banco, leidas, k)
         /\ ComoFechada(banco, leidas, k) =>
              movimientos[i].Fecha = FechaDe(banco, leidas[k])
         /\ (ComoSinFecha(banco, leidas, k) /\ js # {}) =>
              movimientos[i].Fecha = FechaDe(banco, leidas[j0])

\* C9 witness: a dated line followed by two undated lines gave three
\* movements with the dated line's date token.
C9_Witness ==
  /\ Len(leidas) = 3
  /\ ComoFechada(banco, leidas, 1)
  /\ ComoSinFecha(banco, leidas, 2)
  /\ ComoSinFecha(banco, leidas, 3)
  /\ origen = <<1, 2, 3>>
  /\ \A i \in 1..3 : movimientos[i].Fecha = FechaDe(banco, leidas[1])

Centinelas(ms) == {i \in 1..Len(ms) : EsCentinela(banco, ms[i])}

\* C10: in both parsers the sentinel is emitted at most once.
\* saldo_anterior_registrado never goes back to false; the output never
\* holds two sentinels; the line consumed as opening balance appends the
\* sentinel, sets previous_saldo to the opening balance and does nothing
\* else; a line with the opening-balance pattern that comes after it
\* appends no sentinel.
C10_SentinelOnce ==
  [][/\ saldo_anterior_registrado => saldo_anterior_registrado'
     /\ Cardinality(Centinelas(movimientos')) <= 1
     /\ (/\ Len(leidas') = Len(leidas) + 1
         /\ estado' = "parsing"
         /\ ComoSaldo(banco, leidas', Len(leidas'))) =>
          /\ ~saldo_anterior_registrado /\ saldo_anterior_registrado'
          /\ movimientos' =
               Append(movimientos,
                      Fila(Str(""), Str(Marcador(banco)), Str(""),
                           SaldoDe(banco, leidas', Len(leidas'))))
          /\ previous_saldo' = SaldoDe(banco, leidas', Len(leidas'))
          /\ UNCHANGED <<fecha_actual, fecha_anterior, row_transferencia,
                         current_row>>
     /\ (/\ saldo_anterior_registrado
         /\ Len(leidas') = Len(leidas) + 1
         /\ CasaSaldo(banco, Last(leidas'))) =>
          Centinelas(movimientos') = Centinelas(movimientos)]_vars

\* C10 witness: after the opening-balance line, a second line with the
\* opening-balance pattern was consumed and the output holds one sentinel.
C10_Witness ==
  /\ Len(leidas) >= 2
  /\ CasaSaldo(banco, leidas[1])
  /\ CasaSaldo(banco, leidas[2])
  /\ saldo_anterior_registrado
  /\ Centinelas(movimientos) = {1}

\* what the normalizers give for the money tokens that the code reads from
\* line k, when a rule matched it
Normalizados(b, ls, k) ==
  IF ComoSaldo(b, ls, k) THEN {SaldoDe(b, ls, k)}
  ELSE IF ~ComoMovimiento(b, ls, k) THEN {}
  ELSE IF b = "Santander"
  THEN {ImporteSinNegar(PatronesStdr[ls[k]].m), SaldoDe(b, ls, k)}
  ELSE {SaldoDe(b, ls, k)}

\* line k matched a rule and one of its money tokens fails normalization
Malformada(b, ls, k) == ValueError \in Normalizados(b, ls, k)

\* C11: when a money token that matched a rule fails normalization at a
\* line, the parse raises at that line (ValueError), it never resumes, and
\* the caller gets no frame: the movements emitted before that line are not
\* returned.
C11_AllOrNothing ==
  [][/\ (/\ Len(leidas') = Len(leidas) + 1
         /\ Malformada(banco, leidas', Len(leidas'))) =>
          /\ estado' = "raised"
          /\ excepcion' = ValueError
          /\ df_movs' = None /\ df_summary' = None
     /\ (estado = "raised" /\ excepcion = ValueError) =>
          /\ estado' = "raised"
          /\ df_movs' = None /\ df_summary' = None]_vars

\* C11 witness: two movements had been emitted when a malformed line made
\* the parse raise; the caller has no frame.
C11_Witness ==
  /\ estado = "raised"
  /\ excepcion = ValueError
  /\ Malformada(banco, leidas, Len(leidas))
  /\ Len(movimientos) = 2
  /\ df_movs = None

\* line raw matches none of the rules of bank b
SinRegla(b, raw) ==
  /\ ~CasaSaldo(b, raw)
  /\ ~CasaFechada(b, raw)
  /\ ~CasaSinFecha(b, raw)
  /\ b = "Santander" => ~PatronesStdr[raw].m_transf.matched

\* the locals of the parse are as they were at entry
ComoAlEntrar ==
  /\ movimientos = <<>>
  /\ fecha_actual = None
  /\ fecha_anterior = None
  /\ previous_saldo = None
  /\ saldo_anterior_registrado = FALSE
  /\ row_transferencia = FALSE
  /\ current_row = None

\* C12: in both parsers, if no line consumed matches any rule, the output
\* is empty and the parser state equals the initial state; the frame
\* returned at the end is the empty frame.
C12_NoMatchNoOutput ==
  (\A k \in 1..Len(leidas) : SinRegla(banco, leidas[k])) =>
    /\ ComoAlEntrar
    /\ estado \in {"parsing", "returned"} \/ banco = "HSBC_v06"
    /\ (estado = "returned") => df_movs = DataFrame(<<>>)

\* C12 witness: three lines that match no rule were consumed and the parse
\* returned the empty frame.
C12_Witness ==
  /\ banco \in {"Santander", "HSBC"}
  /\ Len(leidas) = 3
  /\ \A k \in 1..3 : SinRegla(banco, leidas[k])
  /\ estado = "returned"
  /\ df_movs = DataFrame(<<>>)


\* C13 (as claimed): the summary that the App builds from the output of
\* either parser leaves the sentinel out: every group holds a movement that
\* is not the sentinel, and the count of the TOTAL row is the number of
\* movements that are not the sentinel.
C13_SummaryExcludesSentinel ==
  (choice # "" /\ estado = "returned" /\ df_summary # None) =>
    LET ms == df_movs.rows
        nos == {i \in 1..Len(ms) : ~EsCentinela(banco, ms[i])}
    IN /\ \A ref \in DOMAIN df_summary.grupos :
            \E i \in nos : ms[i].Referencia = ref
       /\ df_summary.TOTAL.Cantidad = Cardinality(nos)

\* the identifiers that name a parser
Supported == {"Santander OCR Extract", "HSBC OCR Extract"}

C15_DashInsensitive ==
  (valor # None /\ glyph \in {"~", "^", "="}) =>
    valor = (IF locale = "ARG" THEN _to_float_money_arg("-" \o token)
             ELSE _to_float_money_us("-" \o token))

\* the loop body of bank b
LineaDe(b, st, raw) ==
  CASE b = "Santander" -> santander_line(st, raw)
    [] b = "HSBC" -> hsbc_line(st, raw)
    [] b = "HSBC_v06" -> v06_line(st, raw)

\* what parsing the lines ls alone, from the entry state, leaves
RECURSIVE Solo(_, _)
Solo(b, ls) ==
  IF ls = <<>> THEN Locals
  ELSE CHOOSE r \in {LineaDe(b, st, ls[Len(ls)]) :
                       st \in {Solo(b, SubSeq(ls, 1, Len(ls) - 1))}} : TRUE

\* C16: no parser state survives an invocation.  At every point of an
\* invocation that follows another invocation of the same parser, the
\* locals and the output are those that parsing the lines of this document
\* alone, from the entry state, gives, and the frame returned is that
\* output.
C16_NoStateSurvives ==
  documento >= 2 =>
   \A st \in {Solo(banco, leidas)} :
     /\ movimientos = st.movimientos
     /\ fecha_actual = st.fecha_actual
     /\ fecha_anterior = st.fecha_anterior
     /\ previous_saldo = st.previous_saldo
     /\ saldo_anterior_registrado = st.saldo_anterior_registrado
     /\ row_transferencia = st.row_transferencia
     /\ current_row = st.current_row
     /\ (estado = "raised") <=> (st.estado = "raised" \/ IsError(excepcion))
     /\ (estado = "returned") => df_movs = DataFrame(st.movimientos)

\* C16 witness: a second document was parsed to the end after a first one
\* that had left a balance, a date and the opening-balance flag behind.
C16_Witness ==
  /\ documento = 2
  /\ anteriores >= 2
  /\ estado = "returned"
  /\ Len(leidas) >= 1
  /\ movimientos # <<>>
  /\ ~saldo_anterior_registrado

\* the last line before line k that was consumed as opening balance or as
\* movement line (0 when there is none)
Anterior(b, ls, k) ==
  LET js == {j \in 1..(k - 1) : ComoSaldo(b, ls, j) \/ ComoMovimiento(b, ls, j)}
  IN IF js = {} THEN 0 ELSE CHOOSE j \in js : \A x \in js : x <= j

\* C17: Santander.  A transfer header emits nothing, yet it sets
\* previous_saldo to its own balance and the current date to its own date;
\* the next movement line has its sign-inversion check made against the
\* header's balance, whether the header's movement was emitted in between
\* (a detail line came) or not.
C17_HeaderUpdatesPrevious ==
  [][(banco = "Santander" /\ TomaMovimiento) =>
       LET k == Len(leidas')
           raw == Last(leidas')
           h == Anterior(banco, leidas', k)
       IN /\ ComoCabecera(leidas', k) =>
               /\ movimientos' = movimientos
               /\ previous_saldo' = SaldoDe(banco, leidas', k)
               /\ fecha_anterior' = current_row'.Fecha
               /\ CasaFechada(banco, raw) =>
                    fecha_anterior' = FechaDe(banco, raw)
          /\ (h > 0 /\ ComoCabecera(leidas', h)) =>
               /\ previous_saldo = SaldoDe(banco, leidas', h)
               /\ Construida(movimientos', current_row').Importe =
                    IF SaldoDe(banco, leidas', k).float
                         > SaldoDe(banco, leidas', h).float
                    THEN Float(0 - Ingenuo(raw).float)
                    ELSE Ingenuo(raw)]_vars

\* C17 witness: a header was withheld and lost; the movement line after it
\* (balance -1.234,00) had its inversion check made against the header's
\* balance (-800,00: no inversion), not against the last emitted balance
\* (-1.244,00, which would have inverted it).
C17_Witness ==
  /\ banco = "Santander"
  /\ leidas = <<"  Compra $ 10,00 -$ 1.244,00 ",
                "03/01/25 Transferencia Recibida $ 200,00 -$ 800,00",
                "05/01/25 Pago -$ 70.833,71 -$ 1.234,00">>
  /\ Len(movimientos) = 2
  /\ movimientos[2].Importe = Float(7083371)
  /\ movimientos[2].Fecha = Str("05/01/25")

\* C18: an unmatched line changes nothing.  In both parsers a line that
\* matches no rule leaves the dates, previous_saldo, the opening-balance
\* flag, the pending transfer with its flag and the output unchanged, and
\* the parse goes on; in the Santander parser so does a detail-shaped line
\* consumed while no transfer is pending.
C18_UnmatchedChangesNothing ==
  [][(/\ Len(leidas') = Len(leidas) + 1
      /\ \/ SinRegla(banco, Last(leidas'))
         \/ /\ banco = "Santander"
            /\ ComoDetalle(leidas', Len(leidas'))
            /\ IsNone(current_row) \/ ~row_transferencia) =>
       /\ UNCHANGED <<movimientos, fecha_actual, fecha_anterior,
                      previous_saldo, saldo_anterior_registrado,
                      row_transferencia, current_row>>
       /\ estado' = "parsing"]_vars

\* C18 witness: with a date, a balance, the opening balance seen and a
\* transfer pending, a line that matches no rule was consumed and the
\* transfer is still pending.
C18_Witness ==
  /\ banco = "Santander"
  /\ Len(leidas) = 3
  /\ ComoSaldo(banco, leidas, 1)
  /\ ComoCabecera(leidas, 2)
  /\ SinRegla(banco, leidas[3])
  /\ row_transferencia /\ ~IsNone(current_row)
  /\ fecha_anterior = Str("03/01/25")
  /\ Len(movimientos) = 1

\* C19 (as claimed): Santander, a detail line is merged only when it is the
\* line right after the transfer header: a detail-shaped line that arrives
\* after one or more lines that match no rule is not merged and emits
\* nothing.
C19_MergeOnlyAdjacent ==
  [][(/\ banco = "Santander"
      /\ Len(leidas) >= 1
      /\ Len(leidas') = Len(leidas) + 1
      /\ ComoDetalle(leidas', Len(leidas'))
      /\ SinRegla(banco, Last(leidas))) =>
       movimientos' = movimientos]_vars

\* C19 (amended): Santander, a detail line is merged if and only if a
\* transfer header came before it with no movement line and no other detail
\* line in between; lines that match no rule, and the opening-balance line,
\* may stand between the header and its detail.  The merge appends the
\* held row with reference header reference + " - " + detail line.
C19_MergeFirstDetail ==
  [][(/\ banco = "Santander"
      /\ Len(leidas') = Len(leidas) + 1
      /\ ComoDetalle(leidas', Len(leidas'))) =>
       LET k == Len(leidas')
           hs == {h \in 1..(k - 1) :
                    /\ ComoCabecera(leidas', h)
                    /\ \A j \in (h + 1)..(k - 1) :
                         /\ ~ComoMovimiento(banco, leidas', j)
                         /\ ~ComoDetalle(leidas', j)}
       IN /\ movimientos' # movimientos <=> hs # {}
          /\ hs # {} =>
               \E h \in hs :
                 /\ movimientos' =
                      Append(movimientos,
                             Fila(current_row.Fecha,
                                  Str(ReferenciaDe(leidas'[h]) \o " - "
                                        \o strip(leidas'[k])),
                                  current_row.Importe,
                                  SaldoDe(banco, leidas', h)))
                 /\ Last(origen') = h]_vars

\* C19 witness: header, a line that matches no rule, then the detail line:
\* the transfer was merged and emitted.
C19_Witness ==
  /\ banco = "Santander"
  /\ leidas = <<"03/01/25 Transferencia Recibida $ 200,00 -$ 800,00",
                "Pagina 1 de 3",
                "De Juan Perez / transf - var /123">>
  /\ movimientos =
       <<Fila(Str("03/01/25"),
              Str("Transferencia Recibida - De Juan Perez / transf - var /123"),
              Float(0 - 20000), Float(0 - 80000))>>

\* line k has the shape of an undated movement line and no dated movement
\* line was consumed before it
SinFechaQueHeredar(b, ls, k) ==
  /\ ~ComoSaldo(b, ls, k)
  /\ CasaSinFecha(b, ls[k])
  /\ \A j \in 1..(k - 1) : ~ComoFechada(b, ls, j)

C21_AppendOnlyInOrder ==
  [][/\ Len(movimientos') \in {Len(movimientos), Len(movimientos) + 1}
     /\ SubSeq(movimientos', 1, Len(movimientos)) = movimientos
     /\ \A i, j \in 1..Len(origen') :
          i < j => origen'[i] < origen'[j]]_vars

\* the text line ends with the token a, blanks, and the token b
DosFinales(line, a, b) ==
  LET n == Len(line)
      antes == SubSeq(line, 1, n - Len(b))
      resto == rstrip(antes)
  IN /\ Len(a) + Len(b) < n
     /\ SubSeq(line, n - Len(b) + 1, n) = b
     /\ resto # antes
     /\ Len(a) <= Len(resto)
     /\ SubSeq(resto, Len(resto) - Len(a) + 1, Len(resto)) = a

\* C22: Santander, the amount token of a movement line is always taken from
\* the debit field, never from the credit field (whose groups stay unset);
\* it is the first, t, of the two money tokens that end the line, the
\* second being the balance; the amount of the movement is +t when
\* previous_saldo is known and the balance went up, and -t otherwise.
C22_AlwaysDebit ==
  [][(banco = "Santander" /\ TomaMovimiento) =>
       LET raw == Last(leidas')
           m == PatronesStdr[raw].m
           t == CallArg(group(m, "debito"))
           saldo == SaldoDe(banco, leidas', Len(leidas'))
       IN /\ IsStr(group(m, "debito")) /\ IsStr(group(m, "saldo"))
          /\ IsNone(group(m, "credito")) /\ IsNone(group(m, "saldo2"))
          /\ DosFinales(strip(raw), group(m, "debito").str,
                        group(m, "saldo").str)
          /\ Construida(movimientos', current_row').Importe =
               IF ~IsNone(previous_saldo)
                  /\ saldo.float > previous_saldo.float
               THEN Float(t.float)
               ELSE Float(0 - t.float)]_vars

\* C22 witness: a deposit (token "$ 500,00", balance up from -1.000,00 to
\* -500,00) was read from the debit field and came out as +500,00.
C22_Witness ==
  /\ banco = "Santander"
  /\ leidas = <<"Saldo Inicial -$ 1.000,00",
                "02/01/25 1234 Deposito $ 500,00 -$ 500,00">>
  /\ Len(movimientos) = 2
  /\ movimientos[2].Importe = Float(50000)
  /\ IsStr(group(PatronesStdr[leidas[2]].m, "debito"))

\* the transfer headers of the document that are still waiting for their
\* detail line: no movement line and no detail line came after them
Pendientes(ls) ==
  {h \in 1..Len(ls) :
     /\ ComoCabecera(ls, h)
     /\ \A j \in (h + 1)..Len(ls) :
          ~ComoMovimiento("Santander", ls, j) /\ ~ComoDetalle(ls, j)}

\* C23: Santander, after every consumed line row_transferencia is true if
\* and only if current_row is not None, and at most one movement is held
\* back: current_row is the row of the one transfer header still waiting
\* for its detail line, and None when there is no such header.
C23_FlagAgreesWithRow ==
  banco = "Santander" =>
    /\ row_transferencia <=> ~IsNone(current_row)
    /\ estado # "raised" =>
         /\ Cardinality(Pendientes(leidas)) <= 1
         /\ ~IsNone(current_row) <=> Pendientes(leidas) # {}
         /\ \A h \in Pendientes(leidas) :
              /\ origen_row = h
              /\ current_row.Referencia = Str(ReferenciaDe(leidas[h]))
              /\ current_row.Saldo = SaldoDe(banco, leidas, h)
              /\ ~Emitida(h)

\* C23 witness: a second transfer header came while the first was held;
\* one row is held, that of the second header, and nothing was emitted.
C23_Witness ==
  /\ banco = "Santander"
  /\ leidas = <<"03/01/25 Transferencia Recibida $ 200,00 -$ 800,00",
                "TRANSFERENCIA REALIZADA $ 50,00 -$ 1.050,00">>
  /\ row_transferencia
  /\ current_row.Referencia = Str("TRANSFERENCIA REALIZADA")
  /\ current_row.Saldo = Float(0 - 105000)
  /\ movimientos = <<>>

====
